---- MODULE Spec2Model ----
(***************************************************************************)
(* IncidentIQ dashboard: the polling synchronizers, the transition tracker *)
(* and the resolve dispatcher, as state machines.                          *)
(*                                                                         *)
(* One action is one JavaScript task: a timer callback, the continuation   *)
(* of an awaited request, or a user event, together with the React render  *)
(* and the effects that the state updates of that task trigger.            *)
(* Time is not measured: a live interval timer may fire at any moment, and *)
(* a request in flight may complete at any moment, in any order.           *)
(***************************************************************************)
EXTENDS Naturals, Sequences, FiniteSets, TLC

\* ---------------------------------------------------------------- bounds

\* Detail requests for one identifier that may be in flight together.
MaxInFlight == 2

\* List requests issued over a run (the first one included).
MaxPolls == 3

\* Replays that are in flight or whose 3500 ms timeouts are pending.
MaxReplays == 2

\* The backend stops appending once an actions_log has this many entries.
MaxLog == 2

\* ------------------------------------------------------------- constants

ACTIVE_POLL == 2000
RESOLVED_POLL == 10000
POLL_INTERVAL == 2000

null == "null"

\* Identifiers the backend hands out.
IncidentIds == {"1", "2"}

\* Status values a response may carry (the backend is not required to be
\* forward-only, and a late response may report an earlier status).
Statuses == {"triaged", "investigating", "resolved", "postmortem_ready"}

\* A status value outside the enumerated ones, as a later backend may send.
UnknownStatus == "escalated"

\* The message of a thrown Error (request, Dashboard.jsx 104-107).
ErrorMessages == {"Request failed"}

\* An optional field of a record: absent, or present with a value.
Absent == <<>>
Present(v) == <<v>>

\* The body of a non-success response: not JSON, or a JSON object with or
\* without a detail field.
NotJson == [json |-> FALSE, detail |-> Absent]
JsonBody(d) == [json |-> TRUE, detail |-> d]

StatusText(status) == IF status = 404 THEN "Not Found" ELSE "Internal Server Error"
DetailText(status) == IF status = 404 THEN "Incident not found" ELSE "Database unavailable"

\* The non-success responses of the backend: an unknown identifier (404) or a
\* server fault (500), each with the three kinds of body.
FailedResponses ==
    {[status |-> st, statusText |-> StatusText(st), body |-> b] :
        st \in {404, 500}, b \in {NotJson, JsonBody(Absent)}}
    \cup {[status |-> st, statusText |-> StatusText(st),
           body |-> JsonBody(Present(DetailText(st)))] : st \in {404, 500}}

NoResponse == [status |-> 0, statusText |-> "", body |-> NotJson]

\* A helper that reports the status code whatever the body says.
RequestError_IgnoresBody(res) == "Request failed: " \o ToString(res.status)

\* request: the message of the Error thrown for a response that is not ok.
\*   const error = await res.json().catch(() => ({ detail: res.statusText }));
\*   throw new Error(error.detail ?? `Request failed: ${res.status}`);
RequestError(res) ==
    LET error == IF res.body.json THEN [detail |-> res.body.detail]
                 ELSE [detail |-> Present(res.statusText)]
    IN IF error.detail = Absent
       THEN "Request failed: " \o ToString(res.status)
       ELSE error.detail[1]

\* useState(null) for the held detail snapshot.
NoIncident == [incident_id |-> null, status |-> "undefined"]

\* useRef(null) for the interval handle.
NoTimer == [id |-> null, period |-> 0]

\* What the backend holds for each identifier besides its status. Identifier
\* "2" is the newer incident and carries no estimated_users_affected.
SeverityOf == [i \in IncidentIds |-> IF i = "1" THEN "HIGH" ELSE "LOW"]
UsersOf == [i \in IncidentIds |-> IF i = "1" THEN Present(1200) ELSE Absent]
CreatedAt == [i \in IncidentIds |-> IF i = "1" THEN 1 ELSE 2]

ListIncident(id, st) ==
    [incident_id |-> id, status |-> st, severity |-> SeverityOf[id],
     estimated_users_affected |-> UsersOf[id], created_at |-> CreatedAt[id]]

\* The lists GET /api/incidents may answer with: newest first.
BackendLists ==
    {<<>>}
    \cup {<<ListIncident(i, st)>> : i \in IncidentIds, st \in Statuses}
    \cup {<<ListIncident("2", s2), ListIncident("1", s1)>> : s1 \in Statuses, s2 \in Statuses}

\* The bodies of a successful list response: with or without an incidents field.
ListPayloads ==
    {[incidents |-> Present(l)] : l \in BackendLists} \cup {[incidents |-> Absent]}

\* The window sizes useIncidents is started with. The Dashboard passes 30; the
\* window is scaled to the two incidents this backend holds, so that it binds.
Limits == {1, 2}

\* Array.prototype.find's result when nothing matches.
NotFound == [incident_id |-> null, status |-> "undefined"]

VARIABLES
    selectedId,      \* Dashboard: the subscribed identifier (or null)
    incident,        \* useIncident: held snapshot
    loading,         \* useIncident: loading flag
    error,           \* useIncident: error flag (null or a message)
    timers,          \* live interval timers, each running poll for one id
    intervalRef,     \* useIncident: intervalRef.current
    intervalStarts,  \* history: setInterval calls of useIncident so far, modulo 2
    detailInFlight,  \* fetchIncident requests in flight, per identifier
    terminalApplied, \* history: postmortem_ready applied for selectedId since subscribe
    resolvedApplied, \* history: a resolved snapshot applied since subscribe
    showPostmortem,  \* IncidentDetail: the postmortem view is open
    modalId,         \* the incidentId the mounted PostmortemModal's effect ran for (or null)
    pmState,         \* usePostmortem: "idle" (no modal) | "loading" | "content" | "error"
    pmIssued,        \* history: the last fetchPostmortem call and the status held then
    resolving,       \* IncidentDetail: busy flag of the resolve button
    resolveInFlight, \* resolveIncident requests in flight, per identifier
    replayState,     \* TopBar: null | "firing" | "done"
    replayInFlight,  \* triggerReplay requests in flight
    replayResets,    \* pending 3500 ms timeouts of TopBar (setReplayState(null))
    toast,           \* AppShell: the toast message, or null
    toastResets,     \* pending 3500 ms timeouts of AppShell (setToast(null))
    replayedId,      \* history: data.incident_id of the last replay that succeeded
    lastFailed,      \* history: the non-success HTTP response a poll failed with last
    backendLog,      \* backend: length of each incident's actions_log
    served,          \* detail responses on their way back, per identifier and log length
    appliedLog,      \* history: actions_log length of the detail snapshot applied last
    dispatchResult,  \* what the last handleResolve or handleReplay call gave back
    incidents,       \* useIncidents: held list
    listLoading,     \* useIncidents: loading flag
    listError,       \* useIncidents: error flag (null or a message)
    listTimer,       \* useIncidents: period of the live interval (0: none)
    listIntervals,   \* history: list intervals set and not cleared since
    listMounted,     \* the component that called useIncidents is mounted
    limit,           \* useIncidents: the limit argument of the current render
    listInFlight,    \* fetchIncidents requests in flight, by order of issue
    limitOf,         \* the limit each list request was issued with (0: not issued)
    lastData,        \* history: body of the list response applied last
    nextSeq,         \* history: order number of the next list request
    lastAppliedSeq,  \* history: order number of the request whose list is held
    prevIncidentsRef,\* Dashboard: prevIncidentsRef.current
    prevStatusMap,   \* Dashboard: previous status by identifier
    newIds,          \* Dashboard: newly-arrived set
    evictTimers,     \* Dashboard: pending 2000 ms timeouts, each holding its batch
    lastOp           \* history: the task that ran last

pmVars == <<showPostmortem, modalId, pmState, pmIssued>>

detailVars == <<selectedId, incident, loading, error, timers, intervalRef,
                intervalStarts, detailInFlight, terminalApplied, resolvedApplied, pmVars>>

dispatchVars == <<resolving, resolveInFlight, dispatchResult>>

listVars == <<incidents, listLoading, listError, listTimer, listIntervals, listMounted, limit,
              listInFlight, limitOf, nextSeq, lastAppliedSeq, lastData>>

trackerVars == <<prevIncidentsRef, prevStatusMap, newIds, evictTimers>>

replayVars == <<replayState, replayInFlight, replayResets, toast, toastResets,
                replayedId>>

logVars == <<backendLog, served, appliedLog>>

httpVars == <<lastFailed, logVars>>

vars == <<detailVars, dispatchVars, replayVars, httpVars, listVars, trackerVars, lastOp>>

\* ------------------------------------------------------ useIncident.js

\* A test that takes every status it does not know to be final.
isTerminal_UnknownStops(inc) ==
    inc.status \notin {"triaged", "investigating", "resolved", "undefined"}

isTerminal(inc) == inc.status = "postmortem_ready"

Timer(id, period) == [id |-> id, period |-> period]

\* clearInterval(intervalRef.current): a handle that is not live is ignored.
ClearInterval(ts, ref) == ts \ {ref}

\* The cadence the synchronizer is in.
Cadence ==
    IF timers = {} THEN "stopped"
    ELSE IF \E t \in timers : t.period = RESOLVED_POLL THEN "slow"
    ELSE "fast"

\* Mutant: the subscription effect without its cleanup.
SubscribeTimers_NoCleanup(ts, ref, id) == ts \cup {Timer(id, ACTIVE_POLL)}

\* The subscription effect: cleanup of the previous run, then the new run.
SubscribeTimers(ts, ref, id) ==
    ClearInterval(ts, ref) \cup {Timer(id, ACTIVE_POLL)}

\* A cadence effect without its dependency list: it restarts the slow timer on
\* every render that holds a resolved snapshot.
CadenceEffectRuns_EveryRender(oldInc, newInc) ==
    newInc # NoIncident /\ newInc.status = "resolved"

\* The cadence effect reaches its setInterval: React runs the effect only when
\* incident?.status differs from the previous render, and the effect's body
\* acts only on "resolved".
CadenceEffectRuns(oldInc, newInc) ==
    newInc.status # oldInc.status /\ newInc # NoIncident /\ newInc.status = "resolved"

\* Mutant: the cadence effect starts the slow timer without clearing the live one.
CadenceEffect_NoClear(ts, ref, oldInc, newInc, id) ==
    IF CadenceEffectRuns(oldInc, newInc)
    THEN <<ts \cup {Timer(id, RESOLVED_POLL)}, Timer(id, RESOLVED_POLL)>>
    ELSE <<ts, ref>>

\* A cadence effect that follows the status both ways: slow on resolved, fast
\* again on any other status that is not final.
CadenceEffect_FollowsStatus(ts, ref, oldInc, newInc, id) ==
    IF CadenceEffectRuns(oldInc, newInc)
    THEN <<ClearInterval(ts, ref) \cup {Timer(id, RESOLVED_POLL)}, Timer(id, RESOLVED_POLL)>>
    ELSE IF newInc.status # oldInc.status /\ newInc.status # "postmortem_ready"
    THEN <<ClearInterval(ts, ref) \cup {Timer(id, ACTIVE_POLL)}, Timer(id, ACTIVE_POLL)>>
    ELSE <<ts, ref>>

\* The cadence effect, run when incident?.status differs from the last render.
\* Returns the pair <<timers, intervalRef>>.
CadenceEffect(ts, ref, oldInc, newInc, id) ==
    IF CadenceEffectRuns(oldInc, newInc)
    THEN <<ClearInterval(ts, ref) \cup {Timer(id, RESOLVED_POLL)}, Timer(id, RESOLVED_POLL)>>
    ELSE <<ts, ref>>

\* poll's success path: what it does to the timers before the re-render.
PollStopTimers(ts, ref, data) ==
    IF isTerminal(data) THEN ClearInterval(ts, ref) ELSE ts

\* No fetchPostmortem call has been made.
NoRequest == [incident_id |-> null, status |-> "undefined"]

\* IncidentDetail returns the spinner while loading, the error view while the
\* error flag is set and nothing without a snapshot; only past these does it
\* render the header, the panels and, when showPostmortem is set, the modal.
ModalMounted(show, ld, err, inc) == show /\ ~ld /\ err = null /\ inc # NoIncident

\* usePostmortem(incident.incident_id, true): the effect runs when the modal
\* mounts and when the identifier of the held snapshot changes.
PostmortemEffectRuns(oldId, inc) == oldId # inc.incident_id

\* The render that ends a task of IncidentDetail, as far as the modal goes:
\* a modal that is rendered runs usePostmortem's effect, one that is not
\* rendered is unmounted and loses the hook's state.
ModalRender ==
    IF ModalMounted(showPostmortem', loading', error', incident')
    THEN /\ modalId' = incident'.incident_id
         /\ IF PostmortemEffectRuns(modalId, incident')
            THEN /\ pmState' = "loading"
                 /\ pmIssued' = [incident_id |-> incident'.incident_id,
                                 status |-> incident'.status]
            ELSE UNCHANGED <<pmState, pmIssued>>
    ELSE /\ modalId' = null
         /\ pmState' = "idle"
         /\ UNCHANGED pmIssued

\* PostmortemModal is a fixed overlay over the whole window: while it is
\* rendered, a click reaches the modal and nothing beneath it.
OverlayShown == modalId # null

\* setSelectedId(id) with a new identifier: IncidentDetail renders with the
\* new incidentId and the subscription effect runs (cleanup first).
Subscribe(id) ==
    /\ detailInFlight[id] < MaxInFlight
    /\ selectedId' = id
    /\ loading' = TRUE
    /\ incident' = NoIncident
    /\ detailInFlight' = [detailInFlight EXCEPT ![id] = @ + 1]
    /\ timers' = SubscribeTimers(timers, intervalRef, id)
    /\ intervalRef' = Timer(id, ACTIVE_POLL)
    /\ intervalStarts' = 1 - intervalStarts
    /\ terminalApplied' = FALSE
    /\ resolvedApplied' = FALSE
    /\ UNCHANGED <<error, showPostmortem>>
    /\ ModalRender

\* Dashboard returns the "Connecting" screen instead of the AppShell while the
\* list is loading and empty: nothing can be selected or replayed then.
AppShellShown == ~(listLoading /\ Len(incidents) = 0)

\* onSelect (a sidebar row) or handleReplaySuccess (the id the replay created).
Select(id) ==
    /\ listMounted
    /\ AppShellShown
    /\ ~OverlayShown
    /\ id # selectedId
    /\ Subscribe(id)
    /\ lastOp' = "select_" \o (IF selectedId = null THEN "mount" ELSE Cadence)
    /\ UNCHANGED <<dispatchVars, replayVars, httpVars, listVars, trackerVars>>

\* A live interval fires: poll() of the render that created the timer.
DetailTick(t) ==
    /\ t \in timers
    /\ detailInFlight[t.id] < MaxInFlight
    /\ detailInFlight' = [detailInFlight EXCEPT ![t.id] = @ + 1]
    /\ lastOp' = "tick"
    /\ UNCHANGED <<selectedId, incident, loading, error, timers, intervalRef, intervalStarts,
                   terminalApplied, resolvedApplied, pmVars, dispatchVars, replayVars, httpVars, listVars, trackerVars>>

\* poll's success path for a snapshot of r in status s: setIncident(data),
\* the terminal stop, setError(null), finally, and the effects of the render.
DetailApply(r, s) ==
    /\ listMounted
    /\ detailInFlight[r] > 0
    /\ detailInFlight' = [detailInFlight EXCEPT ![r] = @ - 1]
    /\ LET data == [incident_id |-> r, status |-> s]
           stopped == PollStopTimers(timers, intervalRef, data)
           eff == CadenceEffect(stopped, intervalRef, incident, data, selectedId)
       IN /\ incident' = data
          /\ timers' = eff[1]
          /\ intervalRef' = eff[2]
          /\ intervalStarts' = IF CadenceEffectRuns(incident, data)
                               THEN 1 - intervalStarts ELSE intervalStarts
          /\ terminalApplied' = (terminalApplied \/ (r = selectedId /\ isTerminal(data)))
          /\ resolvedApplied' = (resolvedApplied \/ s = "resolved")
    /\ error' = null
    /\ loading' = FALSE
    /\ lastOp' = IF r = selectedId THEN "response" ELSE "stale_response"
    /\ UNCHANGED <<selectedId, showPostmortem, dispatchVars, replayVars, listVars,
                   trackerVars>>
    /\ ModalRender

\* await fetchIncident(r) resolves with a snapshot of r in status s.
DetailResponse(r, s) == DetailApply(r, s) /\ UNCHANGED httpVars

\* A request of r settles after IncidentDetail has been unmounted: React
\* drops the state updates of poll and runs no effect; what is left of the
\* success path is the clearInterval of a terminal snapshot.
DetailSettlesUnmounted(r, s, ok) ==
    /\ ~listMounted
    /\ detailInFlight[r] > 0
    /\ detailInFlight' = [detailInFlight EXCEPT ![r] = @ - 1]
    /\ timers' = IF ok THEN PollStopTimers(timers, intervalRef, [incident_id |-> r, status |-> s])
                  ELSE timers
    /\ lastOp' = "detail_settled_unmounted"
    /\ UNCHANGED <<selectedId, incident, loading, error, intervalRef, intervalStarts,
                   terminalApplied, resolvedApplied, pmVars, dispatchVars, replayVars, httpVars,
                   listVars, trackerVars>>

\* Mutant: the catch branch also drops the held snapshot.
DetailFailure_DropsSnapshot(r, msg) ==
    /\ detailInFlight[r] > 0
    /\ detailInFlight' = [detailInFlight EXCEPT ![r] = @ - 1]
    /\ error' = msg
    /\ loading' = FALSE
    /\ incident' = NoIncident
    /\ lastOp' = IF r = selectedId THEN "failure" ELSE "stale_failure"
    /\ UNCHANGED <<selectedId, timers, intervalRef, intervalStarts, showPostmortem,
                   terminalApplied, resolvedApplied, dispatchVars, replayVars, httpVars, listVars, trackerVars>>
    /\ ModalRender

\* poll's catch and finally for a request of r that rejected with message msg.
DetailCatch(r, msg) ==
    /\ listMounted
    /\ detailInFlight[r] > 0
    /\ detailInFlight' = [detailInFlight EXCEPT ![r] = @ - 1]
    /\ error' = msg
    /\ loading' = FALSE
    /\ lastOp' = IF r = selectedId THEN "failure" ELSE "stale_failure"
    /\ UNCHANGED <<selectedId, incident, timers, intervalRef, intervalStarts, showPostmortem,
                   terminalApplied, resolvedApplied, dispatchVars, replayVars, listVars, trackerVars>>
    /\ ModalRender

\* await fetchIncident(r) rejects.
DetailFailure(r, msg) == DetailCatch(r, msg) /\ UNCHANGED httpVars

\* await fetchIncident(r) rejects because the backend answered with res.
DetailRequestFails(r, res) ==
    DetailCatch(r, RequestError(res)) /\ lastFailed' = res /\ UNCHANGED logVars

\* -------------------------------- IncidentDetail.jsx / IncidentHeader.jsx

\* What IncidentDetail renders: its loading branch, its error branch, nothing,
\* or the panels of the held incident, tested in that order.
DetailView ==
    IF loading THEN "loading"
    ELSE IF error # null THEN "error"
    ELSE IF incident = NoIncident THEN "nothing"
    ELSE "incident"

\* tokens: the position of each lifecycle status in the pipeline display.
statusStep ==
    [ingested |-> 0, triaged |-> 1, investigating |-> 2, war_room_posted |-> 3,
     resolved |-> 4, postmortem_ready |-> 5]

\* PipelineTracker: const current = T.statusStep[status] ?? 0, the step that
\* is drawn as the active one.
PipelineCurrent(status) ==
    IF status \in DOMAIN statusStep THEN statusStep[status] ELSE 0

\* IncidentHeader shows "MARK RESOLVED" while the held status is active, and
\* IncidentDetail renders the header only past its loading and error branches.
ResolveButtonShown ==
    /\ selectedId # null
    /\ ~OverlayShown
    /\ ~loading
    /\ error = null
    /\ incident # NoIncident
    /\ incident.status \notin {"resolved", "postmortem_ready"}

\* handleResolve's guard: if (!incident || resolving) return;
ResolveGuardPasses(inc, busy) == ~(inc = NoIncident \/ busy)

\* A click on the button: handleResolve up to its first await. The async
\* function has no return statement: on every path its promise yields undefined.
HandleResolve ==
    /\ ResolveButtonShown
    /\ IF ResolveGuardPasses(incident, resolving)
       THEN /\ resolving' = TRUE
            /\ resolveInFlight' = [resolveInFlight EXCEPT ![selectedId] = @ + 1]
            /\ lastOp' = "resolve_issued"
            /\ UNCHANGED dispatchResult
       ELSE /\ dispatchResult' = "undefined"
            /\ lastOp' = "resolve_ignored"
            /\ UNCHANGED <<resolving, resolveInFlight>>
    /\ UNCHANGED <<detailVars, replayVars, httpVars, listVars, trackerVars>>

\* A dispatcher that marks the held snapshot resolved as soon as the request
\* succeeds, before any poll.
ResolveDone_Optimistic(id, ok) ==
    /\ resolveInFlight[id] > 0
    /\ resolveInFlight' = [resolveInFlight EXCEPT ![id] = @ - 1]
    /\ resolving' = FALSE
    /\ dispatchResult' = "undefined"
    /\ lastOp' = IF ok THEN "resolve_ok" ELSE "resolve_failed"
    /\ incident' = IF ok /\ incident # NoIncident
                   THEN [incident EXCEPT !.status = "resolved"]
                   ELSE incident
    /\ UNCHANGED <<selectedId, loading, error, timers, intervalRef, intervalStarts, detailInFlight,
                   terminalApplied, resolvedApplied, pmVars, replayVars, httpVars, listVars, trackerVars>>

\* A dispatcher without the finally: a request that fails leaves the flag set.
ResolveDone_NoFinally(id, ok) ==
    /\ resolveInFlight[id] > 0
    /\ resolveInFlight' = [resolveInFlight EXCEPT ![id] = @ - 1]
    /\ resolving' = IF ok THEN FALSE ELSE resolving
    /\ dispatchResult' = "undefined"
    /\ lastOp' = IF ok THEN "resolve_ok" ELSE "resolve_failed"
    /\ UNCHANGED <<detailVars, replayVars, httpVars, listVars, trackerVars>>

\* await resolveIncident(id) settles: the catch only logs, finally clears the flag.
ResolveDone(id, ok) ==
    /\ resolveInFlight[id] > 0
    /\ resolveInFlight' = [resolveInFlight EXCEPT ![id] = @ - 1]
    /\ resolving' = FALSE
    /\ dispatchResult' = "undefined"
    /\ lastOp' = IF ok THEN "resolve_ok" ELSE "resolve_failed"
    /\ UNCHANGED <<detailVars, replayVars, httpVars, listVars, trackerVars>>

\* ------------------------------------------------ TopBar.handleReplay

\* A handler that selects the replayed incident only once the list holds it.
HandleReplaySuccess_WaitsForList(incidentId) ==
    IF incidentId # selectedId
       /\ \E k \in 1..Len(incidents) : incidents[k].incident_id = incidentId
    THEN Subscribe(incidentId)
    ELSE UNCHANGED detailVars

\* Dashboard.handleReplaySuccess: setSelectedId(incidentId); React re-renders
\* (and the subscription effect runs) only if the identifier is another one.
HandleReplaySuccess(incidentId) ==
    IF incidentId # selectedId
    THEN Subscribe(incidentId)
    ELSE UNCHANGED detailVars

\* A click on the Replay button (disabled while "firing"): handleReplay up to
\* its await. Like handleResolve the async function returns nothing.
HandleReplay ==
    /\ AppShellShown
    /\ ~OverlayShown
    /\ listMounted
    /\ replayState # "firing"
    /\ replayInFlight + replayResets < MaxReplays
    /\ replayInFlight + toastResets < MaxReplays
    /\ replayState' = "firing"
    /\ replayInFlight' = replayInFlight + 1
    /\ lastOp' = "replay_issued"
    /\ UNCHANGED <<replayResets, toast, toastResets, replayedId, detailVars,
                   dispatchVars, httpVars, listVars, trackerVars>>

\* await triggerReplay(...) settles. On success with {incident_id: n}:
\* AppShell.handleReplaySuccess (toast and its timeout), then
\* Dashboard.handleReplaySuccess, then "done" and the timeout that clears it.
\* On failure the catch logs and clears the state.
ReplayDone(n, ok) ==
    /\ replayInFlight > 0
    /\ replayInFlight' = replayInFlight - 1
    /\ IF ~listMounted
       THEN /\ lastOp' = "replay_done_unmounted"
            /\ UNCHANGED <<replayState, replayResets, toast, toastResets, replayedId,
                           dispatchResult, detailVars>>
       ELSE IF ok
       THEN /\ toast' = "Incident created"
            /\ toastResets' = toastResets + 1
            /\ HandleReplaySuccess(n)
            /\ replayState' = "done"
            /\ replayResets' = replayResets + 1
            /\ replayedId' = n
            /\ dispatchResult' = "undefined"
            /\ lastOp' = "replay_ok"
       ELSE /\ replayState' = null
            /\ dispatchResult' = "undefined"
            /\ lastOp' = "replay_failed"
            /\ UNCHANGED <<replayResets, toast, toastResets, replayedId, detailVars>>
    /\ UNCHANGED <<resolving, resolveInFlight, httpVars, listVars, trackerVars>>

\* setTimeout(() => setReplayState(null), 3500) fires.
ReplayStateReset ==
    /\ replayResets > 0
    /\ replayResets' = replayResets - 1
    /\ replayState' = IF listMounted THEN null ELSE replayState
    /\ lastOp' = "replay_state_reset"
    /\ UNCHANGED <<replayInFlight, toast, toastResets, replayedId, detailVars,
                   dispatchVars, httpVars, listVars, trackerVars>>

\* setTimeout(() => setToast(null), 3500) fires.
ToastReset ==
    /\ toastResets > 0
    /\ toastResets' = toastResets - 1
    /\ toast' = IF listMounted THEN null ELSE toast
    /\ lastOp' = "toast_reset"
    /\ UNCHANGED <<replayState, replayInFlight, replayResets, replayedId, detailVars,
                   dispatchVars, httpVars, listVars, trackerVars>>

\* -------------------------------------------------------- useIncidents

\* data.incidents ?? []
IncidentsOrEmpty(data) ==
    IF data.incidents = Absent THEN <<>> ELSE data.incidents[1]

\* v ?? 0
OrZero(v) == IF v = Absent THEN 0 ELSE v[1]

\* A count that takes only resolved incidents as inactive.
activeCount_ResolvedOnly(list) ==
    Cardinality({k \in 1..Len(list) : list[k].status # "resolved"})

\* incidents.filter(i => !["resolved", "postmortem_ready"].includes(i.status)).length
activeCount(list) ==
    Cardinality({k \in 1..Len(list) :
                    list[k].status \notin {"resolved", "postmortem_ready"}})

\* incidents.filter(i => i.severity === "HIGH").length
highCount(list) ==
    Cardinality({k \in 1..Len(list) : list[k].severity = "HIGH"})

\* incidents.reduce((acc, i) => acc + (i.estimated_users_affected ?? 0), 0)
RECURSIVE Reduce(_, _)
Reduce(list, acc) ==
    IF list = <<>> THEN acc
    ELSE Reduce(Tail(list), acc + OrZero(Head(list).estimated_users_affected))

totalImpact(list) == Reduce(list, 0)

\* ------------------------------------------------- Dashboard.jsx effects

\* prev.find(p => p.incident_id === id)
RECURSIVE Find(_, _)
Find(list, id) ==
    IF list = <<>> THEN NotFound
    ELSE IF Head(list).incident_id = id THEN Head(list)
    ELSE Find(Tail(list), id)

\* A tracker that records the status an incident changed to.
RECURSIVE TrackStatusChanges_RecordsNew(_, _, _)
TrackStatusChanges_RecordsNew(prev, incs, m) ==
    IF incs = <<>> THEN m
    ELSE LET inc == Head(incs)
             prevInc == Find(prev, inc.incident_id)
         IN TrackStatusChanges_RecordsNew(prev, Tail(incs),
                IF prevInc # NotFound /\ prevInc.status # inc.status
                THEN [m EXCEPT ![inc.incident_id] = inc.status]
                ELSE m)

\* The status-change effect's forEach: one setPrevStatusMap per changed incident.
RECURSIVE TrackStatusChanges(_, _, _)
TrackStatusChanges(prev, incs, m) ==
    IF incs = <<>> THEN m
    ELSE LET inc == Head(incs)
             prevInc == Find(prev, inc.incident_id)
         IN TrackStatusChanges(prev, Tail(incs),
                IF prevInc # NotFound /\ prevInc.status # inc.status
                THEN [m EXCEPT ![inc.incident_id] = prevInc.status]
                ELSE m)

\* incidents.filter(i => !prevIds.has(i.incident_id)).map(i => i.incident_id)
BrandNew(prev, incs) ==
    LET prevIds == {prev[k].incident_id : k \in 1..Len(prev)}
    IN {incs[k].incident_id : k \in {j \in 1..Len(incs) : incs[j].incident_id \notin prevIds}}

\* Effects whose auto-select also replaces a selection that the list no
\* longer holds.
DashboardEffects_FollowsList(incs) ==
    /\ IF Len(incs) > 0 /\ selectedId # incs[1].incident_id
          /\ (selectedId = null
              \/ \A k \in 1..Len(incs) : incs[k].incident_id # selectedId)
       THEN Subscribe(incs[1].incident_id)
       ELSE UNCHANGED detailVars
    /\ prevStatusMap' = TrackStatusChanges(prevIncidentsRef, incs, prevStatusMap)
    /\ prevIncidentsRef' = incs
    /\ LET brandNew == BrandNew(prevIncidentsRef', incs)
       IN IF brandNew # {}
          THEN /\ newIds' = newIds \cup brandNew
               /\ evictTimers' = evictTimers \cup {brandNew}
          ELSE UNCHANGED <<newIds, evictTimers>>

\* The effects that depend on [incidents], in the order the component declares
\* them: auto-select, status changes (which ends by storing the new list in
\* prevIncidentsRef), then new incidents (which reads prevIncidentsRef again).
DashboardEffects(incs) ==
    /\ IF selectedId = null /\ Len(incs) > 0
       THEN Subscribe(incs[1].incident_id)
       ELSE UNCHANGED detailVars
    /\ prevStatusMap' = TrackStatusChanges(prevIncidentsRef, incs, prevStatusMap)
    /\ prevIncidentsRef' = incs
    /\ LET brandNew == BrandNew(prevIncidentsRef', incs)
       IN IF brandNew # {}
          THEN /\ newIds' = newIds \cup brandNew
               /\ evictTimers' = evictTimers \cup {brandNew}
          ELSE UNCHANGED <<newIds, evictTimers>>

\* The 2000 ms timeout of one detection batch fires.
EvictNewIds(batch) ==
    /\ batch \in evictTimers
    /\ newIds' = newIds \ batch
    /\ evictTimers' = evictTimers \ {batch}
    /\ lastOp' = "evict"
    /\ UNCHANGED <<detailVars, dispatchVars, replayVars, httpVars, listVars, prevIncidentsRef, prevStatusMap>>

\* The list interval fires: poll() issues the next request.
ListTick ==
    /\ listTimer # 0
    /\ nextSeq <= MaxPolls
    /\ listInFlight' = listInFlight \cup {nextSeq}
    /\ limitOf' = [limitOf EXCEPT ![nextSeq] = limit]
    /\ nextSeq' = nextSeq + 1
    /\ lastOp' = "list_tick"
    /\ UNCHANGED <<incidents, listLoading, listError, listTimer, listIntervals, listMounted, limit,
                   lastAppliedSeq, lastData, detailVars, dispatchVars, replayVars, httpVars, trackerVars>>

\* A synchronizer that appends each response to the held list.
ListResponse_Merges(n, data) ==
    /\ n \in listInFlight
    /\ Len(IncidentsOrEmpty(data)) <= limitOf[n]
    /\ listInFlight' = listInFlight \ {n}
    /\ IF listMounted
       THEN /\ incidents' = incidents \o IncidentsOrEmpty(data)
            /\ listError' = null
            /\ listLoading' = FALSE
            /\ lastAppliedSeq' = n
            /\ lastData' = data
            /\ DashboardEffects(incidents')
            /\ lastOp' = "list_response"
       ELSE /\ lastOp' = "list_response_unmounted"
            /\ UNCHANGED <<incidents, listError, listLoading, lastAppliedSeq, lastData,
                           detailVars, trackerVars>>
    /\ UNCHANGED <<listTimer, listIntervals, listMounted, limit, limitOf, nextSeq, dispatchVars, replayVars, httpVars>>

\* A synchronizer that keeps the held list when the body has no incidents field.
ListResponse_KeepsOnMissingField(n, data) ==
    /\ n \in listInFlight
    /\ Len(IncidentsOrEmpty(data)) <= limitOf[n]
    /\ listInFlight' = listInFlight \ {n}
    /\ IF listMounted
       THEN /\ incidents' = IF data.incidents = Absent THEN incidents ELSE data.incidents[1]
            /\ listError' = null
            /\ listLoading' = FALSE
            /\ lastAppliedSeq' = n
            /\ lastData' = data
            /\ DashboardEffects(incidents')
            /\ lastOp' = "list_response"
       ELSE /\ lastOp' = "list_response_unmounted"
            /\ UNCHANGED <<incidents, listError, listLoading, lastAppliedSeq, lastData,
                           detailVars, trackerVars>>
    /\ UNCHANGED <<listTimer, listIntervals, listMounted, limit, limitOf, nextSeq, dispatchVars, replayVars, httpVars>>

\* A list poll whose success path leaves the error flag as it is.
ListResponse_KeepsError(n, data) ==
    /\ n \in listInFlight
    /\ Len(IncidentsOrEmpty(data)) <= limitOf[n]
    /\ listInFlight' = listInFlight \ {n}
    /\ IF listMounted
       THEN /\ incidents' = IncidentsOrEmpty(data)
            /\ listLoading' = FALSE
            /\ lastAppliedSeq' = n
            /\ lastData' = data
            /\ DashboardEffects(incidents')
            /\ lastOp' = "list_response"
            /\ UNCHANGED listError
       ELSE /\ lastOp' = "list_response_unmounted"
            /\ UNCHANGED <<incidents, listError, listLoading, lastAppliedSeq, lastData,
                           detailVars, trackerVars>>
    /\ UNCHANGED <<listTimer, listIntervals, listMounted, limit, limitOf, nextSeq, dispatchVars,
                   replayVars, httpVars>>

\* await fetchIncidents(limit) resolves for the request issued n-th; the
\* backend answers with at most the limit of the request. React drops the
\* state updates of a component that has unmounted.
ListResponse(n, data) ==
    /\ n \in listInFlight
    /\ Len(IncidentsOrEmpty(data)) <= limitOf[n]
    /\ listInFlight' = listInFlight \ {n}
    /\ IF listMounted
       THEN /\ incidents' = IncidentsOrEmpty(data)
            /\ listError' = null
            /\ listLoading' = FALSE
            /\ lastAppliedSeq' = n
            /\ lastData' = data
            /\ DashboardEffects(incidents')
            /\ lastOp' = "list_response"
       ELSE /\ lastOp' = "list_response_unmounted"
            /\ UNCHANGED <<incidents, listError, listLoading, lastAppliedSeq, lastData,
                           detailVars, trackerVars>>
    /\ UNCHANGED <<listTimer, listIntervals, listMounted, limit, limitOf, nextSeq, dispatchVars, replayVars, httpVars>>

\* Mutant: the catch branch also empties the held list.
ListFailure_EmptiesList(n, msg) ==
    /\ n \in listInFlight
    /\ listInFlight' = listInFlight \ {n}
    /\ listError' = msg
    /\ listLoading' = FALSE
    /\ incidents' = <<>>
    /\ lastOp' = "list_failure"
    /\ UNCHANGED <<listTimer, listIntervals, listMounted, limit, limitOf, nextSeq, lastAppliedSeq,
                   lastData, detailVars, dispatchVars, replayVars, httpVars, trackerVars>>

\* poll's catch and finally for the list request issued n-th.
ListCatch(n, msg) ==
    /\ n \in listInFlight
    /\ listInFlight' = listInFlight \ {n}
    /\ IF listMounted
       THEN /\ listError' = msg
            /\ listLoading' = FALSE
            /\ lastOp' = "list_failure"
       ELSE /\ lastOp' = "list_failure_unmounted"
            /\ UNCHANGED <<listError, listLoading>>
    /\ UNCHANGED <<incidents, listTimer, listIntervals, listMounted, limit, limitOf, nextSeq,
                   lastAppliedSeq, lastData, detailVars, dispatchVars, replayVars, trackerVars>>

\* await fetchIncidents(limit) rejects.
ListFailure(n, msg) == ListCatch(n, msg) /\ UNCHANGED httpVars

\* await fetchIncidents(limit) rejects because the backend answered with res.
ListRequestFails(n, res) ==
    ListCatch(n, RequestError(res)) /\ lastFailed' = res /\ UNCHANGED logVars

\* The cleanup of the interval effect: clearInterval(intervalRef.current)
\* clears the interval set last, if it is live.
IntervalCleanup(n) == IF n > 0 THEN n - 1 ELSE 0

\* An interval effect whose cleanup clears nothing.
IntervalEffect_NoCleanup(n) == n + 1

\* The interval effect runs again: the cleanup of the previous run, then
\* setInterval.
IntervalEffect(n) == IntervalCleanup(n) + 1

\* The component is re-rendered with another limit: poll is a new callback, so
\* the effect runs again: cleanup, poll(), setInterval. The held list, the
\* flags and the requests in flight are left as they are.
ListRestart(newLimit) ==
    /\ listMounted
    /\ newLimit # limit
    /\ nextSeq <= MaxPolls
    /\ limit' = newLimit
    /\ listInFlight' = listInFlight \cup {nextSeq}
    /\ limitOf' = [limitOf EXCEPT ![nextSeq] = newLimit]
    /\ nextSeq' = nextSeq + 1
    /\ listTimer' = POLL_INTERVAL
    /\ listIntervals' = IntervalEffect(listIntervals)
    /\ lastOp' = "list_restart"
    /\ UNCHANGED <<incidents, listLoading, listError, listMounted, lastAppliedSeq,
                   lastData, detailVars, dispatchVars, replayVars, httpVars, trackerVars>>

\* The Dashboard unmounts: the cleanup of useIncidents clears the list
\* interval, and the cleanup of useIncident (if mounted) clears the detail one.
Unmount ==
    /\ listMounted
    /\ listMounted' = FALSE
    /\ listTimer' = 0
    /\ listIntervals' = IntervalCleanup(listIntervals)
    /\ timers' = ClearInterval(timers, intervalRef)
    /\ lastOp' = "unmount"
    /\ UNCHANGED <<incidents, listLoading, listError, limit, listInFlight, limitOf,
                   nextSeq, lastAppliedSeq, lastData, selectedId, incident, loading,
                   error, intervalRef, intervalStarts, detailInFlight, terminalApplied,
                   resolvedApplied, pmVars, dispatchVars, replayVars, httpVars, trackerVars>>

\* ------------------------------------------------- backend actions_log

\* The responses of r that the backend has sent and poll has not yet received.
RECURSIVE ServedUpTo(_, _)
ServedUpTo(r, len) ==
    served[r][len] + (IF len = 0 THEN 0 ELSE ServedUpTo(r, len - 1))

\* The backend appends an entry to the actions_log of incident id; it never
\* removes one.
BackendAppend(id) ==
    /\ backendLog[id] < MaxLog
    /\ backendLog' = [backendLog EXCEPT ![id] = @ + 1]
    /\ lastOp' = "backend_append"
    /\ UNCHANGED <<detailVars, dispatchVars, replayVars, lastFailed, served, appliedLog,
                   listVars, trackerVars>>

\* The backend answers one GET /incidents/{r} that is in flight: the response
\* carries the actions_log as it is at that moment.
BackendAnswers(r) ==
    /\ ServedUpTo(r, MaxLog) < detailInFlight[r]
    /\ served' = [served EXCEPT ![r][backendLog[r]] = @ + 1]
    /\ lastOp' = "backend_answer"
    /\ UNCHANGED <<detailVars, dispatchVars, replayVars, lastFailed, backendLog, appliedLog,
                   listVars, trackerVars>>

\* await fetchIncident(r) resolves with one of the responses on their way
\* back, in any order: data.actions_log has len entries.
DetailResponseWithLog(r, s, len) ==
    /\ served[r][len] > 0
    /\ served' = [served EXCEPT ![r][len] = @ - 1]
    /\ appliedLog' = len
    /\ DetailApply(r, s)
    /\ UNCHANGED <<lastFailed, backendLog>>

\* ------------------------------------------- postmortem view (on demand)

\* IncidentHeader shows "POSTMORTEM" when the held status is postmortem_ready,
\* and IncidentDetail renders the header only past its loading and error
\* branches.
PostmortemButtonShown ==
    /\ selectedId # null
    /\ ~OverlayShown
    /\ ~loading
    /\ error = null
    /\ incident # NoIncident
    /\ incident.status = "postmortem_ready"

\* onPostmortem: setShowPostmortem(true); the modal mounts and its effect runs.
OpenPostmortem ==
    /\ PostmortemButtonShown
    /\ showPostmortem' = TRUE
    /\ lastOp' = "postmortem_open"
    /\ UNCHANGED <<selectedId, incident, loading, error, timers, intervalRef, intervalStarts,
                   detailInFlight, terminalApplied, resolvedApplied, dispatchVars, replayVars,
                   httpVars, listVars, trackerVars>>
    /\ ModalRender

\* onClose: setShowPostmortem(false); the modal unmounts.
ClosePostmortem ==
    /\ OverlayShown
    /\ showPostmortem' = FALSE
    /\ lastOp' = "postmortem_close"
    /\ UNCHANGED <<selectedId, incident, loading, error, timers, intervalRef, intervalStarts,
                   detailInFlight, terminalApplied, resolvedApplied, dispatchVars, replayVars,
                   httpVars, listVars, trackerVars>>
    /\ ModalRender

\* fetchPostmortem settles in the mounted modal: content or error is set and
\* finally clears the loading flag.
PostmortemDone(ok) ==
    /\ pmState = "loading"
    /\ pmState' = IF ok THEN "content" ELSE "error"
    /\ lastOp' = "postmortem_done"
    /\ UNCHANGED <<selectedId, incident, loading, error, timers, intervalRef, intervalStarts,
                   detailInFlight, terminalApplied, resolvedApplied, showPostmortem, modalId,
                   pmIssued, dispatchVars, replayVars, httpVars, listVars, trackerVars>>

\* ---------------------------------------------------------------- system

\* The Dashboard has mounted: the list hook has issued its first request and
\* set its interval; nothing is selected, so no IncidentDetail is mounted.
Init ==
    /\ selectedId = null
    /\ incident = NoIncident
    /\ loading = TRUE
    /\ error = null
    /\ timers = {}
    /\ intervalRef = NoTimer
    /\ intervalStarts = 0
    /\ detailInFlight = [i \in IncidentIds |-> 0]
    /\ terminalApplied = FALSE
    /\ resolvedApplied = FALSE
    /\ showPostmortem = FALSE
    /\ modalId = null
    /\ pmState = "idle"
    /\ pmIssued = NoRequest
    /\ resolving = FALSE
    /\ resolveInFlight = [i \in IncidentIds |-> 0]
    /\ dispatchResult = "none"
    /\ replayState = null
    /\ replayInFlight = 0
    /\ replayResets = 0
    /\ toast = null
    /\ toastResets = 0
    /\ replayedId = null
    /\ lastFailed = NoResponse
    /\ backendLog = [i \in IncidentIds |-> 0]
    /\ served = [i \in IncidentIds |-> [len \in 0..MaxLog |-> 0]]
    /\ appliedLog = 0
    /\ incidents = <<>>
    /\ listLoading = TRUE
    /\ listError = null
    /\ listTimer = POLL_INTERVAL
    /\ listIntervals = 1
    /\ listMounted = TRUE
    /\ limit \in Limits
    /\ listInFlight = {1}
    /\ limitOf = [n \in 1..MaxPolls |-> IF n = 1 THEN limit ELSE 0]
    /\ nextSeq = 2
    /\ lastAppliedSeq = 0
    /\ lastData = [incidents |-> Absent]
    /\ prevIncidentsRef = <<>>
    /\ prevStatusMap = [i \in IncidentIds |-> "undefined"]
    /\ newIds = {}
    /\ evictTimers = {}
    /\ lastOp = "init"

\* The list synchronizer and the effects its snapshots trigger.
NextList ==
    \/ ListTick
    \/ \E n \in 1..MaxPolls, data \in ListPayloads : ListResponse(n, data)
    \/ \E n \in 1..MaxPolls, msg \in ErrorMessages : ListFailure(n, msg)

SpecList == Init /\ [][NextList]_vars

\* The list synchronizer with its caller restarting it with another limit, or
\* stopping it.
NextListLifecycle ==
    \/ NextList
    \/ \E l \in Limits : ListRestart(l)
    \/ Unmount

SpecListLifecycle == Init /\ [][NextListLifecycle]_vars

\* The first list request has been answered (with an error) and the AppShell
\* is on screen; what follows is the detail synchronizer and the resolve button.
FirstListPoll == \E msg \in ErrorMessages : ListFailure(1, msg)

NextDetail ==
    \/ FirstListPoll
    \/ \E id \in IncidentIds : Select(id)
    \/ \E t \in timers : DetailTick(t)
    \/ \E r \in IncidentIds, s \in Statuses : DetailResponse(r, s)
    \/ \E r \in IncidentIds, msg \in ErrorMessages : DetailFailure(r, msg)
    \/ HandleResolve
    \/ \E id \in IncidentIds, ok \in BOOLEAN : ResolveDone(id, ok)

SpecDetail == Init /\ [][NextDetail]_vars

\* One subscription: the identifier is selected once and never changed.
Mount(id) == selectedId = null /\ Select(id)

NextOneSubscription ==
    \/ FirstListPoll
    \/ \E id \in IncidentIds : Mount(id)
    \/ \E t \in timers : DetailTick(t)
    \/ \E r \in IncidentIds, s \in Statuses : DetailResponse(r, s)
    \/ \E r \in IncidentIds, msg \in ErrorMessages : DetailFailure(r, msg)

SpecOneSubscription == Init /\ [][NextOneSubscription]_vars

\* The replay button with the detail synchronizer it re-targets: the list is
\* empty, so the replay is the only way to select an incident.
NextReplay ==
    \/ FirstListPoll
    \/ HandleReplay
    \/ \E n \in IncidentIds, ok \in BOOLEAN : ReplayDone(n, ok)
    \/ ReplayStateReset
    \/ ToastReset
    \/ \E t \in timers : DetailTick(t)
    \/ \E r \in IncidentIds, st \in Statuses : DetailResponse(r, st)
    \/ \E r \in IncidentIds, msg \in ErrorMessages : DetailFailure(r, msg)

SpecReplay == Init /\ [][NextReplay]_vars

\* The timers of the two synchronizers over their whole life: subscribe and
\* re-subscribe, the polls and their completions, a restart of the list with
\* another limit, the unmount, and the requests that settle after it.
NextTimers ==
    \/ FirstListPoll
    \/ \E id \in IncidentIds : Select(id)
    \/ \E t \in timers : DetailTick(t)
    \/ \E r \in IncidentIds, st \in Statuses : DetailResponse(r, st)
    \/ \E r \in IncidentIds, msg \in ErrorMessages : DetailFailure(r, msg)
    \/ \E l \in Limits : ListRestart(l)
    \/ Unmount
    \/ \E r \in IncidentIds, st \in Statuses, ok \in BOOLEAN : DetailSettlesUnmounted(r, st, ok)

SpecTimers == Init /\ [][NextTimers]_vars

\* The detail synchronizer with re-subscriptions, over a backend whose status
\* may regress or take a value the client does not know.
NextCadence ==
    \/ FirstListPoll
    \/ \E id \in IncidentIds : Select(id)
    \/ \E t \in timers : DetailTick(t)
    \/ \E r \in IncidentIds, st \in Statuses \cup {UnknownStatus} : DetailResponse(r, st)
    \/ \E r \in IncidentIds, msg \in ErrorMessages : DetailFailure(r, msg)

SpecCadence == Init /\ [][NextCadence]_vars

\* One subscription under fair scheduling: a live interval keeps firing
\* (setInterval), and a request that is in flight completes, with a snapshot
\* or with an error.
Fairness ==
    /\ WF_vars(\E t \in timers : DetailTick(t))
    /\ WF_vars(\E r \in IncidentIds : (\/ \E st \in Statuses : DetailResponse(r, st)
                                       \/ \E msg \in ErrorMessages : DetailFailure(r, msg)))

SpecFairSubscription == Init /\ [][NextOneSubscription]_vars /\ Fairness

\* One subscription against a backend whose actions_log only grows.
NextLog ==
    \/ FirstListPoll
    \/ \E id \in IncidentIds : Mount(id)
    \/ \E t \in timers : DetailTick(t)
    \/ \E id \in IncidentIds : BackendAppend(id)
    \/ \E r \in IncidentIds : BackendAnswers(r)
    \/ \E r \in IncidentIds, st \in Statuses, len \in 0..MaxLog :
            DetailResponseWithLog(r, st, len)

SpecLog == Init /\ [][NextLog]_vars

\* The postmortem view with the detail synchronizer beneath it and the
\* replay button, which re-targets the subscription while a replay that was
\* started before the view was opened completes. Replays succeed, and the
\* 3500 ms timeouts they leave behind have not fired yet.
NextPostmortem ==
    \/ FirstListPoll
    \/ HandleReplay
    \/ \E n \in IncidentIds : ReplayDone(n, TRUE)
    \/ \E t \in timers : DetailTick(t)
    \/ \E r \in IncidentIds, st \in Statuses : DetailResponse(r, st)
    \/ \E r \in IncidentIds, msg \in ErrorMessages : DetailFailure(r, msg)
    \/ OpenPostmortem
    \/ ClosePostmortem
    \/ \E ok \in BOOLEAN : PostmortemDone(ok)

SpecPostmortem == Init /\ [][NextPostmortem]_vars

\* The list bodies of a backend that holds incident "1" only.
OneIncidentPayloads ==
    {p \in ListPayloads :
        \A k \in 1..Len(IncidentsOrEmpty(p)) : IncidentsOrEmpty(p)[k].incident_id = "1"}

\* The Dashboard left to itself over a backend that holds one incident: the
\* list polls, the automatic selection and the detail polls of that incident.
NextOneIncident ==
    \/ ListTick
    \/ \E n \in 1..MaxPolls, data \in OneIncidentPayloads : ListResponse(n, data)
    \/ \E n \in 1..MaxPolls, msg \in ErrorMessages : ListFailure(n, msg)
    \/ \E t \in timers : DetailTick(t)
    \/ \E st \in Statuses : DetailResponse("1", st)
    \/ \E msg \in ErrorMessages : DetailFailure("1", msg)

SpecOneIncident == Init /\ [][NextOneIncident]_vars

\* One subscription over a backend that answers the first list poll with a
\* non-success response, and the detail polls with snapshots or non-success
\* responses.
NextErrors ==
    \/ \E res \in FailedResponses : ListRequestFails(1, res)
    \/ \E id \in IncidentIds : Mount(id)
    \/ \E t \in timers : DetailTick(t)
    \/ \E r \in IncidentIds, st \in Statuses : DetailResponse(r, st)
    \/ \E r \in IncidentIds, res \in FailedResponses : DetailRequestFails(r, res)

SpecErrors == Init /\ [][NextErrors]_vars

\* Two non-success responses whose messages differ: a 404 whose body carries
\* a detail, and a 500 whose body is not JSON.
TwoFailedResponses ==
    {res \in FailedResponses :
        \/ res.status = 404 /\ res.body = JsonBody(Present(DetailText(404)))
        \/ res.status = 500 /\ res.body = NotJson}

\* The list bodies of a backend that holds no incident.
EmptyPayloads == {p \in ListPayloads : Len(IncidentsOrEmpty(p)) = 0}

\* The list bodies of a backend that holds incident "1" only, triaged.
OneTriagedPayloads ==
    {p \in OneIncidentPayloads :
        \A k \in 1..Len(IncidentsOrEmpty(p)) : IncidentsOrEmpty(p)[k].status = "triaged"}

\* Everything that selects, with the polls that must not: the list polls (and
\* the automatic selection), the sidebar, the replay, and the detail polls.
\* Every request succeeds, and the incidents stay triaged.
NextSelection ==
    \/ ListTick
    \/ \E n \in 1..MaxPolls, data \in OneTriagedPayloads : ListResponse(n, data)
    \/ \E id \in IncidentIds : Select(id)
    \/ HandleReplay
    \/ \E n \in IncidentIds : ReplayDone(n, TRUE)
    \/ \E r \in IncidentIds : DetailResponse(r, "triaged")

SpecSelection == Init /\ [][NextSelection]_vars

\* The two dispatchers, resolve and replay: incident "1" is selected and its
\* snapshot puts the resolve button on screen; a replay that succeeds creates
\* incident "2" and selects it.
NextDispatch ==
    \/ FirstListPoll
    \/ Mount("1")
    \/ \E r \in IncidentIds : DetailResponse(r, "triaged")
    \/ HandleResolve
    \/ \E id \in IncidentIds, ok \in BOOLEAN : ResolveDone(id, ok)
    \/ HandleReplay
    \/ \E ok \in BOOLEAN : ReplayDone("2", ok)
    \/ ReplayStateReset
    \/ ToastReset

\* Every mutating request is answered in the end, and a timeout that was set
\* fires.
DispatchFairness ==
    /\ WF_vars(\E id \in IncidentIds, ok \in BOOLEAN : ResolveDone(id, ok))
    /\ WF_vars(\E ok \in BOOLEAN : ReplayDone("2", ok))
    /\ WF_vars(ReplayStateReset)
    /\ WF_vars(ToastReset)

SpecFairDispatch == Init /\ [][NextDispatch]_vars /\ DispatchFairness

\* One re-subscription: the user goes from incident "1" on to incident "2".
SelectNext == selectedId = "1" /\ Select("2")

\* Both synchronizers with successes and failures interleaved: the polls of a
\* list that stays empty, and the detail polls of the incident selected,
\* which stays triaged.
NextFlags ==
    \/ ListTick
    \/ \E n \in 1..MaxPolls, data \in EmptyPayloads : ListResponse(n, data)
    \/ \E n \in 1..MaxPolls, res \in TwoFailedResponses : ListRequestFails(n, res)
    \/ \E id \in IncidentIds : Mount(id)
    \/ SelectNext
    \/ \E t \in timers : DetailTick(t)
    \/ \E r \in IncidentIds : DetailResponse(r, "triaged")
    \/ \E r \in IncidentIds, res \in TwoFailedResponses : DetailRequestFails(r, res)

SpecFlags == Init /\ [][NextFlags]_vars

\* One subscription over a backend that may report a status this client does
\* not know.
NextUnknownStatus ==
    \/ FirstListPoll
    \/ \E id \in IncidentIds : Mount(id)
    \/ \E t \in timers : DetailTick(t)
    \/ \E r \in IncidentIds, st \in Statuses \cup {UnknownStatus} : DetailResponse(r, st)
    \/ \E r \in IncidentIds, msg \in ErrorMessages : DetailFailure(r, msg)

SpecUnknownStatus == Init /\ [][NextUnknownStatus]_vars

\* ---------------------------------------------------------------- claims

\* The task that just ran completed a retrieval issued for an identifier other
\* than the subscribed one.
StaleCompletion == lastOp \in {"stale_response", "stale_failure"}

\* C1: after a re-subscription from X to Y the held snapshot is empty or Y's
\* data, never X's, also when X's retrieval completes after the switch.
C1_HeldSnapshotIsSubscribed ==
    incident # NoIncident => incident.incident_id = selectedId

\* C3: once a postmortem_ready snapshot has been applied for the subscribed
\* identifier, no step issues a further retrieval for it while it stays subscribed.
C3_TerminalStop ==
    [][(terminalApplied /\ selectedId' = selectedId)
          => detailInFlight'[selectedId] <= detailInFlight[selectedId]]_vars

\* C6 as stated: the cadence is fast until a resolved snapshot is applied, and
\* slow from then on.
C6_FastThenSlowForever ==
    selectedId # null =>
        Cadence = (IF resolvedApplied THEN "slow" ELSE "fast")

\* C6 amended: every live timer is fast until a resolved response is applied;
\* the response that changes the held status to resolved replaces the live
\* timer by one slow timer; from then on every live timer is slow; and the
\* only step that leaves the subscription without a timer applies a
\* postmortem_ready response.
C6_ResolvedSlowDown ==
    /\ [](selectedId # null =>
            timers \subseteq {Timer(selectedId,
                    IF resolvedApplied THEN RESOLVED_POLL ELSE ACTIVE_POLL)})
    /\ [][(lastOp' \in {"response", "stale_response"}
            /\ incident'.status = "resolved" /\ incident.status # "resolved")
          => (timers' = {Timer(selectedId, RESOLVED_POLL)}
              /\ intervalRef' = Timer(selectedId, RESOLVED_POLL))]_vars
    /\ [][(timers # {} /\ timers' = {})
          => (lastOp' \in {"response", "stale_response"} /\ isTerminal(incident'))]_vars

C6_Witness ==
    /\ lastOp = "response"
    /\ incident.status = "resolved"
    /\ timers = {Timer(selectedId, RESOLVED_POLL)}

\* C7: a re-subscription leaves exactly one live timer, fast and for the new
\* identifier, held in intervalRef, and issues exactly one retrieval, for the
\* new identifier, whatever the cadence was before.
C7_ResubscriptionReset ==
    [][selectedId' # selectedId
          => /\ timers' = {Timer(selectedId', ACTIVE_POLL)}
             /\ intervalRef' = Timer(selectedId', ACTIVE_POLL)
             /\ detailInFlight' = [detailInFlight EXCEPT ![selectedId'] = @ + 1]
             /\ Cadence' = "fast"]_vars

C7_Witness ==
    /\ lastOp = "select_stopped"
    /\ timers = {Timer(selectedId, ACTIVE_POLL)}
    /\ detailInFlight[selectedId] >= 1

\* C8: a completion of a retrieval issued for a previous subscription changes
\* neither the timers, nor the cadence, nor the loading flag, nor the error flag.
C8_StaleCompletionIgnored ==
    [][StaleCompletion'
          => UNCHANGED <<timers, intervalRef, loading, error>>]_vars

\* C9: a failed detail retrieval keeps the held snapshot, sets the error flag,
\* and leaves the timers (hence the cadence and the next tick) as they were.
C9_DetailFailureKeepsState ==
    [][lastOp' \in {"failure", "stale_failure"}
          => /\ incident' = incident
             /\ error' \in ErrorMessages
             /\ timers' = timers
             /\ intervalRef' = intervalRef
             /\ Cadence' = Cadence]_vars

C9_Witness ==
    /\ lastOp = "failure"
    /\ incident # NoIncident
    /\ error \in ErrorMessages
    /\ timers = {Timer(selectedId, RESOLVED_POLL)}
    /\ detailInFlight[selectedId] < MaxInFlight

\* C5: a resolve dispatched while one is outstanding is answered "already in
\* progress", and no identifier ever has two resolve requests in flight.
C5_DuplicateDispatchRejected ==
    /\ lastOp = "resolve_ignored" => dispatchResult = "already in progress"
    /\ \A id \in IncidentIds : resolveInFlight[id] <= 1

\* C2: list responses are applied in the order their requests were issued:
\* the order number of the request whose list is held never goes down.
C2_AppliedInIssueOrder ==
    [][lastAppliedSeq' >= lastAppliedSeq]_vars

\* C4: when the held list changes from P to C, every incident_id of C that
\* is absent from P is in the newly-arrived set after the change.
C4_NewlyArrivedAdded ==
    [][lastOp' = "list_response"
          => \A k \in 1..Len(incidents') :
                (\A j \in 1..Len(incidents) :
                    incidents[j].incident_id # incidents'[k].incident_id)
                => incidents'[k].incident_id \in newIds']_vars

\* C10: a failed list retrieval keeps the held list and its aggregates, sets
\* the error flag, clears the loading flag, leaves the interval live and
\* touches nothing else.
C10_ListFailureKeepsState ==
    [][lastOp' = "list_failure"
          => /\ incidents' = incidents
             /\ activeCount(incidents') = activeCount(incidents)
             /\ highCount(incidents') = highCount(incidents)
             /\ totalImpact(incidents') = totalImpact(incidents)
             /\ listError' \in ErrorMessages
             /\ listLoading' = FALSE
             /\ listTimer' = POLL_INTERVAL
             /\ UNCHANGED <<lastAppliedSeq, trackerVars, detailVars>>]_vars

C10_Witness ==
    /\ lastOp = "list_failure"
    /\ Len(incidents) = 2
    /\ activeCount(incidents) = 1
    /\ totalImpact(incidents) = 1200
    /\ listError \in ErrorMessages
    /\ nextSeq <= MaxPolls

\* The ids and the status of an id in a list snapshot.
IdsOf(list) == {list[k].incident_id : k \in 1..Len(list)}

\* C11: when a list response replaces the held list P by C, the status-change
\* map records, for every id of both whose status differs, the status it had
\* in P; every other entry is left as it was; and an id of both lists is not
\* marked newly arrived by that step.
C11_StatusChangeRecorded ==
    [][lastOp' = "list_response" =>
        \A id \in IncidentIds :
            LET inP == id \in IdsOf(incidents)
                inC == id \in IdsOf(incidents')
                stP == incidents[CHOOSE k \in 1..Len(incidents) :
                                    incidents[k].incident_id = id].status
                stC == incidents'[CHOOSE k \in 1..Len(incidents') :
                                     incidents'[k].incident_id = id].status
            IN /\ (inP /\ inC /\ stP # stC) => prevStatusMap'[id] = stP
               /\ ~(inP /\ inC /\ stP # stC) => prevStatusMap'[id] = prevStatusMap[id]
               /\ (inP /\ inC) => (id \in newIds' <=> id \in newIds)]_vars

\* Incident 1 went from triaged to investigating between two snapshots.
C11_Witness ==
    /\ lastOp = "list_response"
    /\ prevStatusMap["1"] = "triaged"
    /\ \E k \in 1..Len(incidents) :
          incidents[k].incident_id = "1" /\ incidents[k].status = "investigating"
    /\ "1" \notin newIds

C13_ReplaySelects ==
    [][/\ lastOp' = "replay_ok" =>
            /\ selectedId' = replayedId'
            /\ replayedId' # selectedId =>
                  /\ intervalRef' = Timer(replayedId', ACTIVE_POLL)
                  /\ intervalRef' \in timers'
                  /\ detailInFlight'[replayedId'] > 0
                  /\ incident' = NoIncident
       /\ lastOp' = "replay_failed" => UNCHANGED detailVars]_vars

\* The replayed incident is selected and polled while the held list is empty.
C13_Witness ==
    /\ lastOp = "replay_ok"
    /\ selectedId = replayedId
    /\ replayedId \notin IdsOf(incidents)
    /\ Timer(replayedId, ACTIVE_POLL) \in timers
    /\ \E other \in IncidentIds \ {replayedId} : detailInFlight[other] > 0

ResolveSteps == {"resolve_issued", "resolve_ignored", "resolve_ok", "resolve_failed"}

C15_DispatchResultDistinguishes ==
    /\ lastOp \in {"resolve_failed", "replay_failed"} => dispatchResult = "dispatch_error"
    /\ lastOp \in {"resolve_ok", "replay_ok"} =>
          dispatchResult \notin {"dispatch_error", "fetch_error"}

\* After the cleanup of useIncidents has run for good, no list request is
\* issued and no completion changes the held list or the two flags.
StoppedListIsQuiet ==
    [][~listMounted =>
        /\ nextSeq' = nextSeq
        /\ UNCHANGED <<incidents, listError, listLoading>>]_vars

\* After a restart with another limit, the completion of a request issued
\* under the old limit changes neither the held list nor the two flags.
OldLimitCompletionsIgnored ==
    [][\A n \in listInFlight \ listInFlight' :
        limitOf[n] # limit => UNCHANGED <<incidents, listError, listLoading>>]_vars

\* C16: once the list synchronizer is stopped its timer issues no request and
\* the completion of a request that was in flight is not applied to the held
\* list, the error flag or the loading flag; and the same holds, after a
\* restart with another limit, for the requests issued under the old limit.
C16_StoppedOrOldLimitNotApplied == StoppedListIsQuiet /\ OldLimitCompletionsIgnored

\* Newest first: created_at never increases along the list.
IsSortedDesc(list) ==
    \A i, j \in 1..Len(list) : i < j => list[i].created_at >= list[j].created_at

\* C17: whatever list polls with limit L have succeeded, failed or completed
\* out of order (the backend answering each with at most L incidents, newest
\* first), the held list has at most L incidents and is sorted by created_at
\* descending.
C17_ListWindow ==
    /\ Len(incidents) <= limit
    /\ IsSortedDesc(incidents)

\* The held list fills the window after a response was applied and a later
\* poll failed.
C17_Witness ==
    /\ Len(incidents) = limit
    /\ lastAppliedSeq > 0
    /\ lastOp = "list_failure"
    /\ listInFlight # {}

\* The aggregates as the specification words them, computed over a list
\* position by position.
RECURSIVE CountTerminal(_)
CountTerminal(list) ==
    IF list = <<>> THEN 0
    ELSE CountTerminal(Tail(list))
         + (IF Head(list).status = "resolved" \/ Head(list).status = "postmortem_ready"
            THEN 1 ELSE 0)

RECURSIVE CountHigh(_)
CountHigh(list) ==
    IF list = <<>> THEN 0
    ELSE CountHigh(Tail(list)) + (IF Head(list).severity = "HIGH" THEN 1 ELSE 0)

RECURSIVE SumUsers(_, _)
SumUsers(list, k) ==
    IF k = 0 THEN 0
    ELSE SumUsers(list, k - 1)
         + (IF list[k].estimated_users_affected = Absent
            THEN 0 ELSE list[k].estimated_users_affected[1])

\* C18: in every state the aggregates the hook derives from the held list are:
\* activeCount = the length of the list minus its resolved and
\* postmortem_ready incidents, highCount = its incidents of severity HIGH,
\* totalImpact = the sum of estimated_users_affected, an absent value being 0.
C18_AggregatesMatchHeldList ==
    /\ activeCount(incidents) + CountTerminal(incidents) = Len(incidents)
    /\ highCount(incidents) = CountHigh(incidents)
    /\ totalImpact(incidents) = SumUsers(incidents, Len(incidents))

\* Two held incidents, one of them terminal, one without an impact estimate.
C18_Witness ==
    /\ Len(incidents) = 2
    /\ incidents[1].status = "postmortem_ready"
    /\ incidents[1].estimated_users_affected = Absent
    /\ incidents[2].status = "investigating"
    /\ activeCount(incidents) = 1
    /\ highCount(incidents) = 1
    /\ totalImpact(incidents) = 1200

\* C19: once a list response has been applied, the held list is exactly the
\* incidents sequence of the response applied last (nothing of an earlier list
\* is kept), and the empty list if that response had no incidents field.
C19_WholesaleReplacement ==
    lastAppliedSeq > 0 =>
        IF lastData.incidents = Absent
        THEN incidents = <<>>
        ELSE incidents = lastData.incidents[1]

\* A body without an incidents field was applied over a list that held an
\* incident (the one that was selected automatically).
C19_Witness ==
    /\ lastOp = "list_response"
    /\ lastData.incidents = Absent
    /\ incidents = <<>>
    /\ selectedId # null

\* Every incident of snapshot C is in snapshot P with the same status.
EveryIncidentAsBefore(P, C) ==
    \A k \in 1..Len(C) :
        \E j \in 1..Len(P) :
            P[j].incident_id = C[k].incident_id /\ P[j].status = C[k].status

\* C20: a list response in which every incident has the identifier and the
\* status it had in the held list changes neither the status-change map nor
\* the newly-arrived set (nor starts an eviction timer); a detail response
\* with the status of the held snapshot leaves the live polling timer as it
\* is: no clearInterval, no setInterval, same period.
C20_RepeatsAreIdempotent ==
    [][/\ (lastOp' = "list_response" /\ EveryIncidentAsBefore(incidents, incidents'))
            => UNCHANGED <<prevStatusMap, newIds, evictTimers>>
       /\ (/\ lastOp' \in {"response", "stale_response"}
           /\ incident # NoIncident
           /\ incident'.status = incident.status)
            => UNCHANGED <<timers, intervalRef, intervalStarts>>]_vars

\* Only two list requests were issued; the first one's response held incident
\* 1 (it was selected automatically and polled since), the second one's
\* response has just been applied and holds it with the same status: the map
\* has no entry for it.
C20_Witness ==
    /\ lastOp = "list_response"
    /\ nextSeq = 3
    /\ lastAppliedSeq = 2
    /\ selectedId = "1"
    /\ incident # NoIncident
    /\ IdsOf(incidents) = {"1"}
    /\ prevStatusMap["1"] = "undefined"
    /\ newIds = {}

\* C21: when a retrieval for the subscribed identifier has failed with the
\* backend's not-found response (404), the error is surfaced and the
\* subscription is over: no timer that would issue another retrieval for the
\* identifier is live.
C21_NotFoundIsTerminal ==
    (lastOp = "failure" /\ lastFailed.status = 404) =>
        /\ error = RequestError(lastFailed)
        /\ \A t \in timers : t.id # selectedId

\* C22: once a poll has failed after a successful one, the last good data is
\* still what is shown: IncidentDetail shows the panels of the held incident
\* (not an error-only view), and the Dashboard shows the AppShell with the
\* held list (not the connecting screen).
C22_NoBlanking ==
    /\ (lastOp = "failure" /\ incident # NoIncident) => DetailView = "incident"
    /\ (lastOp = "list_failure" /\ Len(incidents) > 0) => AppShellShown

C24_UnknownIsOwnVariant ==
    (DetailView = "incident" /\ incident.status \notin DOMAIN statusStep) =>
        \A known \in DOMAIN statusStep :
            PipelineCurrent(incident.status) # statusStep[known]

\* The error convention: the body's detail string if the body is JSON and has
\* one, the status text if the body is not JSON, and otherwise a message that
\* carries the status code.
ConventionMessage(res) ==
    CASE ~res.body.json -> res.statusText
      [] res.body.json /\ res.body.detail # Absent -> res.body.detail[1]
      [] OTHER -> "Request failed: " \o ToString(res.status)

C26_PostmortemOnDemandOnly ==
    [][pmIssued' # pmIssued
        => lastOp' = "postmortem_open" /\ pmIssued'.status = "postmortem_ready"]_vars

\* C27: actions_log monotonicity in the client. Within one subscription and
\* against an append-only backend, the actions_log of the held snapshot never
\* gets shorter from one applied snapshot to the next.
C27_ActionsLogNeverShrinks ==
    [][lastOp' = "response" => appliedLog' >= appliedLog]_vars

\* C28: polling never ends on a non-terminal view. Whenever an identifier is
\* subscribed, a snapshot of it has been applied, no timer is live and no
\* request is in flight, the held snapshot has status postmortem_ready.
C28_StoppedOnlyOnTerminal ==
    (/\ selectedId # null
     /\ incident # NoIncident
     /\ incident.incident_id = selectedId
     /\ timers = {}
     /\ \A r \in IncidentIds : detailInFlight[r] = 0)
        => incident.status = "postmortem_ready"

\* A step of a backend that reports postmortem_ready and answers every request.
BackendReportsTerminal ==
    /\ lastOp' \notin {"failure", "stale_failure"}
    /\ lastOp' \in {"response", "stale_response"} => incident'.status = "postmortem_ready"

\* The detail synchronizer holds a postmortem_ready snapshot and polls no more.
Converged ==
    /\ incident # NoIncident
    /\ incident.status = "postmortem_ready"
    /\ timers = {}
    /\ \A r \in IncidentIds : detailInFlight[r] = 0

\* C29: eventual terminal convergence. Under fair scheduling, if an incident
\* is subscribed and from some point on every request succeeds and the backend
\* reports postmortem_ready, then eventually the detail synchronizer holds a
\* postmortem_ready snapshot and issues no more requests, and stays so.
C29_EventualTerminalConvergence ==
    (<>(selectedId # null) /\ <>[][BackendReportsTerminal]_vars) => <>[]Converged

\* C30: the resolve busy flag is per target. A click on the resolve button of
\* the selected incident, while a resolve request is outstanding for another
\* incident only, is not dropped: it issues its own request.
C30_ResolveBusyIsPerTarget ==
    [][(/\ lastOp' \in {"resolve_issued", "resolve_ignored"}
        /\ resolveInFlight[selectedId] = 0
        /\ \E x \in IncidentIds \ {selectedId} : resolveInFlight[x] > 0)
        => /\ lastOp' = "resolve_issued"
           /\ resolveInFlight'[selectedId] = 1]_vars

\* C31: replay busy state. Whenever a replay request is outstanding,
\* replayState is "firing" (the button is disabled), so at most one replay
\* request is in flight; the reset timeout of an earlier replay does not move
\* replayState out of "firing".
C31_ReplayBusyWhileOutstanding ==
    replayInFlight > 0 => (replayState = "firing" /\ replayInFlight = 1)

C33_SlowCadenceIsOneWay ==
    [][((Cadence = "slow" \/ resolvedApplied) /\ selectedId' = selectedId)
          => \A t \in timers' : t.period = RESOLVED_POLL]_vars

\* A subscription that slowed down holds a regressed or unknown status and
\* still polls at the slow interval.
C33_Witness ==
    /\ lastOp = "response"
    /\ resolvedApplied
    /\ incident.status \in {"triaged", UnknownStatus}
    /\ timers = {Timer(selectedId, RESOLVED_POLL)}

\* C34: the error flag tracks the last completed request. In each
\* synchronizer a request that succeeds sets the flag to null, a request that
\* fails sets it to the message of that failure, and no other step changes
\* it: the flag is non-null exactly when the request that completed last failed.
C34_ErrorFlagTracksLastCompletion ==
    [][/\ lastOp' \in {"response", "stale_response"} => error' = null
       /\ lastOp' \in {"failure", "stale_failure"} =>
             (error' = RequestError(lastFailed') /\ error' # null)
       /\ lastOp' \notin {"response", "stale_response", "failure", "stale_failure"} =>
             error' = error
       /\ lastOp' = "list_response" => listError' = null
       /\ lastOp' = "list_failure" =>
             (listError' = RequestError(lastFailed') /\ listError' # null)
       /\ lastOp' \notin {"list_response", "list_failure"} => listError' = listError]_vars

\* A detail poll has just succeeded and cleared the error of a detail poll
\* that failed after the list poll whose error the list still holds.
C34_Witness ==
    /\ lastOp = "response"
    /\ error = null
    /\ listError # null
    /\ lastFailed # NoResponse
    /\ listError # RequestError(lastFailed)

\* C35: selection frame. The selected identifier changes only by a user
\* select, by a successful replay (to the replayed identifier), or by the
\* auto-select of a list poll applied while nothing is selected (to the first
\* incident of the new list); it is never cleared, and no list or detail poll
\* changes it once it is set, even if the held list does not contain it.
C35_SelectionFrame ==
    [][/\ selectedId # null => selectedId' # null
       /\ selectedId' # selectedId =>
            \/ lastOp' \in {"select_mount", "select_fast", "select_slow", "select_stopped"}
            \/ lastOp' = "replay_ok" /\ selectedId' = replayedId'
            \/ /\ lastOp' = "list_response"
               /\ selectedId = null
               /\ Len(incidents') > 0
               /\ selectedId' = incidents'[1].incident_id]_vars

\* A list poll has just been applied whose list does not hold the selected
\* identifier.
C35_Witness ==
    /\ lastOp = "list_response"
    /\ selectedId = "2"
    /\ Len(incidents) > 0
    /\ \A k \in 1..Len(incidents) : incidents[k].incident_id # selectedId

\* The step that completes a resolve clears the flag, the step that completes
\* a failed replay returns the button to idle, and a resolve click is turned
\* down only while the flag is set.
ReleasedOnCompletion ==
    [][/\ lastOp' \in {"resolve_ok", "resolve_failed"} => resolving' = FALSE
       /\ lastOp' = "replay_failed" => replayState' = null
       /\ lastOp' = "resolve_ignored" => resolving]_vars

\* An outstanding resolve leads to a clear flag.
ResolveReleased == (\E id \in IncidentIds : resolveInFlight[id] > 0) ~> ~resolving

\* An outstanding replay, and the "done" state of a successful one, lead to idle.
ReplayReleased == (replayInFlight > 0 \/ replayState = "done") ~> replayState = null

\* C36: busy states are always released. Given that every mutating request
\* completes and every timeout fires: a resolve that completes, either way,
\* clears the resolving flag; a replay that fails returns replayState to null
\* at once, one that succeeds does so once its timeout has fired; and with
\* the flag clear a resolve click is accepted.
C36_BusyStatesReleased == ReleasedOnCompletion /\ ResolveReleased /\ ReplayReleased

\* A resolve has failed and the flag is clear, while the button of a replay
\* that succeeded earlier is idle again.
C36_Witness ==
    /\ lastOp = "resolve_failed"
    /\ ~resolving
    /\ replayState = null
    /\ replayedId # null

====
